---- MODULE Spec2Model ----
(***************************************************************************)
(* atuin-z: frecency ranking of directories taken from the Atuin history.  *)
(* The model covers frecency::score, matching::rank_with,                  *)
(* exclusions::is_excluded and db::query_dirs.                             *)
(*                                                                         *)
(* Rust's i64 and f64 are wider than the integers of the model checker, so *)
(* both are modelled exactly on top of arbitrary-precision naturals: a     *)
(* natural is a little-endian sequence of limbs with no leading zero limb. *)
(***************************************************************************)
EXTENDS Integers, Sequences, FiniteSets, TLC

\* ------------------------------------------------------------ naturals
LimbBits == 5 * 3
Base == 2 ^ LimbBits

RECURSIVE NatFromInt(_)
NatFromInt(n) ==
    IF n = 0 THEN <<>> ELSE <<n % Base>> \o NatFromInt(n \div Base)

RECURSIVE NatTrim(_)
NatTrim(a) ==
    IF a = <<>> THEN a
    ELSE IF a[Len(a)] = 0 THEN NatTrim(SubSeq(a, 1, Len(a) - 1)) ELSE a

Limb(a, i) == IF i <= Len(a) THEN a[i] ELSE 0

RECURSIVE NatAddC(_, _, _, _)
NatAddC(a, b, i, c) ==
    IF i > Len(a) /\ i > Len(b)
    THEN IF c = 0 THEN <<>> ELSE <<c>>
    ELSE LET s == Limb(a, i) + Limb(b, i) + c
         IN  <<s % Base>> \o NatAddC(a, b, i + 1, s \div Base)

NatAdd(a, b) == NatAddC(a, b, 1, 0)

\* a - b for a >= b
RECURSIVE NatSubB(_, _, _, _)
NatSubB(a, b, i, br) ==
    IF i > Len(a) THEN <<>>
    ELSE LET d == Limb(a, i) - Limb(b, i) - br
         IN  <<IF d < 0 THEN d + Base ELSE d>>
             \o NatSubB(a, b, i + 1, IF d < 0 THEN 1 ELSE 0)

NatSub(a, b) == NatTrim(NatSubB(a, b, 1, 0))

RECURSIVE NatCmpAt(_, _, _)
NatCmpAt(a, b, i) ==
    IF i = 0 THEN 0
    ELSE IF a[i] < b[i] THEN -1
    ELSE IF a[i] > b[i] THEN 1
    ELSE NatCmpAt(a, b, i - 1)

\* -1, 0 or 1 as a < b, a = b or a > b
NatCmp(a, b) ==
    IF Len(a) < Len(b) THEN -1
    ELSE IF Len(a) > Len(b) THEN 1
    ELSE NatCmpAt(a, b, Len(a))

\* a * k for a limb-sized k
RECURSIVE NatMulSmallC(_, _, _, _)
NatMulSmallC(a, k, i, c) ==
    IF i > Len(a)
    THEN IF c = 0 THEN <<>> ELSE <<c>>
    ELSE LET p == a[i] * k + c
         IN  <<p % Base>> \o NatMulSmallC(a, k, i + 1, p \div Base)

NatMulSmall(a, k) == NatTrim(NatMulSmallC(a, k, 1, 0))

RECURSIVE NatMul(_, _)
NatMul(a, b) ==
    IF a = <<>> \/ b = <<>> THEN <<>>
    ELSE LET rest == NatMul(a, Tail(b))
         IN  NatAdd(NatMulSmall(a, Head(b)),
                    IF rest = <<>> THEN rest ELSE <<0>> \o rest)

\* a \div k for a limb-sized k, from the top limb down
RECURSIVE NatDivSmallAt(_, _, _, _)
NatDivSmallAt(a, k, i, r) ==
    IF i = 0 THEN <<>>
    ELSE LET v == r * Base + a[i]
         IN  NatDivSmallAt(a, k, i - 1, v % k) \o <<v \div k>>

NatDivSmall(a, k) == NatTrim(NatDivSmallAt(a, k, Len(a), 0))

NatOdd(a) == a # <<>> /\ a[1] % 2 = 1

\* a * 2^n
NatShl(a, n) ==
    IF a = <<>> THEN a
    ELSE [i \in 1..(n \div LimbBits) |-> 0] \o NatMulSmall(a, 2 ^ (n % LimbBits))

\* a \div 2^n
NatShr(a, n) ==
    IF n \div LimbBits >= Len(a) THEN <<>>
    ELSE NatDivSmall(SubSeq(a, n \div LimbBits + 1, Len(a)), 2 ^ (n % LimbBits))

RECURSIVE IntBitLen(_)
IntBitLen(n) == IF n = 0 THEN 0 ELSE 1 + IntBitLen(n \div 2)

NatBitLen(a) ==
    IF a = <<>> THEN 0 ELSE (Len(a) - 1) * LimbBits + IntBitLen(a[Len(a)])

NatOne == NatFromInt(1)

\* ------------------------------------------------------------ i64
\* A signed integer is a sign and a magnitude; zero is never negative.
IntOf(neg, mag) == [neg |-> neg /\ mag # <<>>, mag |-> mag]

IntFromInt(n) == IF n < 0 THEN IntOf(TRUE, NatFromInt(-n)) ELSE IntOf(FALSE, NatFromInt(n))

IntNeg(a) == IntOf(~a.neg, a.mag)

IntAdd(a, b) ==
    IF a.neg = b.neg THEN IntOf(a.neg, NatAdd(a.mag, b.mag))
    ELSE IF NatCmp(a.mag, b.mag) >= 0 THEN IntOf(a.neg, NatSub(a.mag, b.mag))
    ELSE IntOf(b.neg, NatSub(b.mag, a.mag))

IntSub(a, b) == IntAdd(a, IntNeg(b))

IntMul(a, b) == IntOf(a.neg # b.neg, NatMul(a.mag, b.mag))

IntLess(a, b) ==
    IF a.neg # b.neg THEN a.neg
    ELSE IF a.neg THEN NatCmp(a.mag, b.mag) > 0
    ELSE NatCmp(a.mag, b.mag) < 0

I64_MAX == IntOf(FALSE, NatSub(NatShl(NatOne, 63), NatOne))
I64_MIN == IntOf(TRUE, NatShl(NatOne, 63))

\* i64::wrapping_sub: the difference modulo 2^64
wrapping_sub(a, b) ==
    LET d == IntSub(a, b)
        two64 == IntOf(FALSE, NatShl(NatOne, 64))
    IN  IF IntLess(I64_MAX, d) THEN IntSub(d, two64)
        ELSE IF IntLess(d, I64_MIN) THEN IntAdd(d, two64)
        ELSE d

\* i64::saturating_sub
saturating_sub(a, b) ==
    LET d == IntSub(a, b)
    IN  IF IntLess(I64_MAX, d) THEN I64_MAX
        ELSE IF IntLess(d, I64_MIN) THEN I64_MIN
        ELSE d

\* ------------------------------------------------------------ f64
\* A finite f64 is neg, mag and exp with value (-1)^neg * mag * 2^exp, where
\* mag is odd and below 2^53, or mag and exp are zero.  No operation of the
\* program leaves the exponent range or produces a NaN (|values| < 2^70).
MantissaBits == 53

RECURSIVE IntTrailingZeros(_)
IntTrailingZeros(n) == IF n % 2 = 1 THEN 0 ELSE 1 + IntTrailingZeros(n \div 2)

\* the number of zero bits below the lowest set bit of a # 0
NatTrailingZeros(a) ==
    LET k == CHOOSE j \in 1..Len(a) : a[j] # 0 /\ \A i \in 1..(j - 1) : a[i] = 0
    IN  (k - 1) * LimbBits + IntTrailingZeros(a[k])

F64Norm(neg, mag, exp) ==
    IF mag = <<>> THEN [neg |-> FALSE, mag |-> <<>>, exp |-> 0]
    ELSE LET z == NatTrailingZeros(mag)
         IN  [neg |-> neg, mag |-> NatShr(mag, z), exp |-> exp + z]

\* drop the n >= 1 low bits of m, keeping the last bit dropped (g) and whether
\* any bit below it was set (st)
RoundShift(m, n) ==
    [q  |-> NatShr(m, n),
     g  |-> NatOdd(NatShr(m, n - 1)),
     st |-> NatTrailingZeros(m) < n - 1]

\* round-to-nearest, ties-to-even, of mag * 2^exp to MantissaBits bits
F64Round(neg, mag, exp) ==
    LET len == NatBitLen(mag)
    IN  IF len <= MantissaBits THEN F64Norm(neg, mag, exp)
        ELSE LET sh == len - MantissaBits
                 r  == RoundShift(mag, sh)
                 up == r.g /\ (r.st \/ NatOdd(r.q))
             IN  F64Norm(neg, IF up THEN NatAdd(r.q, NatOne) ELSE r.q, exp + sh)

\* `x as f64` for an i64 x
F64FromI64(x) == F64Round(x.neg, x.mag, 0)

\* a * b
F64Mul(a, b) == F64Round(a.neg # b.neg, NatMul(a.mag, b.mag), a.exp + b.exp)

\* the value of a as a signed integer multiple of 2^e, for e <= a.exp
F64Scaled(a, e) == IntOf(a.neg, NatShl(a.mag, IF a.mag = <<>> THEN 0 ELSE a.exp - e))

F64Less(a, b) ==
    LET e == IF a.exp < b.exp THEN a.exp ELSE b.exp
    IN  IntLess(F64Scaled(a, e), F64Scaled(b, e))

\* f64::partial_cmp on finite values
partial_cmp(a, b) ==
    IF F64Less(a, b) THEN "Less" ELSE IF F64Less(b, a) THEN "Greater" ELSE "Equal"

\* the f64 literals of the program: n / 2^k for small n
F64Lit(n, k) == F64Norm(FALSE, NatFromInt(n), -k)

\* ------------------------------------------------------------ strings
\* A string is a sequence of one-character strings.
UpperCase == <<"A", "B", "C", "D", "E", "F", "G", "H", "I", "J", "K", "L", "M",
               "N", "O", "P", "Q", "R", "S", "T", "U", "V", "W", "X", "Y", "Z">>
LowerCase == <<"a", "b", "c", "d", "e", "f", "g", "h", "i", "j", "k", "l", "m",
               "n", "o", "p", "q", "r", "s", "t", "u", "v", "w", "x", "y", "z">>

char_to_lowercase(c) ==
    IF \E i \in 1..Len(UpperCase) : UpperCase[i] = c
    THEN LowerCase[CHOOSE i \in 1..Len(UpperCase) : UpperCase[i] = c]
    ELSE c

\* str::to_lowercase
to_lowercase(s) ==
    IF s = <<>> THEN <<>> ELSE [i \in 1..Len(s) |-> char_to_lowercase(s[i])]

\* str::contains
contains(hay, needle) ==
    \E i \in 0..(Len(hay) - Len(needle)) : SubSeq(hay, i + 1, i + Len(needle)) = needle

\* str::starts_with
starts_with(s, prefix) ==
    Len(prefix) <= Len(s) /\ SubSeq(s, 1, Len(prefix)) = prefix

\* Option<T>: None is the empty sequence, Some(x) the sequence <<x>>
None == <<>>
Some(x) == <<x>>

\* the pieces of s between separators sep
RECURSIVE split(_, _)
split(s, sep) ==
    IF \A i \in 1..Len(s) : s[i] # sep THEN <<s>>
    ELSE LET i == CHOOSE j \in 1..Len(s) : s[j] = sep /\ \A k \in 1..(j - 1) : s[k] # sep
         IN  <<SubSeq(s, 1, i - 1)>> \o split(SubSeq(s, i + 1, Len(s)), sep)

\* Path::components without the root: empty pieces and "." are dropped, but
\* a leading "." of a relative path stays (CurDir)
components(path) ==
    LET pieces == split(path, "/")
        keep(i) == /\ pieces[i] # <<>>
                   /\ pieces[i] = <<".">> => (i = 1)
    IN  [j \in 1..Cardinality({i \in 1..Len(pieces) : keep(i)}) |->
            pieces[CHOOSE i \in 1..Len(pieces) :
                      keep(i) /\ Cardinality({k \in 1..i : keep(k)}) = j]]

\* Path::file_name: the last component when it is a normal one
file_name(path) ==
    LET cs == components(path)
    IN  IF Len(cs) = 0 THEN None
        ELSE IF cs[Len(cs)] = <<".", ".">> \/ cs[Len(cs)] = <<".">> THEN None
        ELSE Some(cs[Len(cs)])

\* ------------------------------------------------------------ frecency.rs
NANOS_PER_SECOND == IntFromInt(1000000000)
HOUR_NS == IntMul(IntFromInt(3600), NANOS_PER_SECOND)
DAY_NS == IntMul(IntFromInt(24), HOUR_NS)
WEEK_NS == IntMul(IntFromInt(7), DAY_NS)

Mode == {"Frecency", "Frequency", "Recency"}

\* weight with each boundary counted into the bucket below it
weight_inclusive(age) ==
    IF ~IntLess(HOUR_NS, age) THEN F64Lit(4, 0)
    ELSE IF ~IntLess(DAY_NS, age) THEN F64Lit(2, 0)
    ELSE IF ~IntLess(WEEK_NS, age) THEN F64Lit(1, 1)
    ELSE F64Lit(1, 2)

\* the decay weight of the Frecency arm of score
weight(age) ==
    IF IntLess(age, HOUR_NS) THEN F64Lit(4, 0)
    ELSE IF IntLess(age, DAY_NS) THEN F64Lit(2, 0)
    ELSE IF IntLess(age, WEEK_NS) THEN F64Lit(1, 1)
    ELSE F64Lit(1, 2)

\* score with the recency weight applied in Frequency mode too
score_weighted_frequency(entry, now, m) ==
    CASE m \in {"Frecency", "Frequency"} ->
            F64Mul(F64FromI64(entry.freq),
                   weight(saturating_sub(now, entry.last_visit_ns)))
      [] m = "Recency" -> F64FromI64(entry.last_visit_ns)

score(entry, now, m) ==
    CASE m = "Frecency" ->
            LET age == saturating_sub(now, entry.last_visit_ns)
            IN  F64Mul(F64FromI64(entry.freq), weight(age))
      [] m = "Frequency" -> F64FromI64(entry.freq)
      [] m = "Recency" -> F64FromI64(entry.last_visit_ns)

\* ------------------------------------------------------------ exclusions.rs
\* is_excluded by prefix: an entry excludes what lies below it as well
is_excluded_prefix(dir, excl) == \E i \in 1..Len(excl) : starts_with(dir, excl[i])

is_excluded(dir, excl) == \E i \in 1..Len(excl) : excl[i] = dir

\* str::lines: the pieces that end at a "\n", each without that "\n" and
\* without a "\r" right in front of it, and what follows the last "\n" when
\* that is not empty
lines(content) ==
    LET pieces == split(content, "\n")
        n == IF pieces[Len(pieces)] = <<>> THEN Len(pieces) - 1 ELSE Len(pieces)
        strip(l) == IF l # <<>> /\ l[Len(l)] = "\r" THEN SubSeq(l, 1, Len(l) - 1)
                    ELSE l
    IN  IF n = 0 THEN <<>>
        ELSE [i \in 1..n |-> IF i < Len(pieces) THEN strip(pieces[i]) ELSE pieces[i]]

\* [String]::join
RECURSIVE join(_, _)
join(v, sep) ==
    IF v = <<>> THEN <<>>
    ELSE IF Len(v) = 1 THEN v[1]
    ELSE v[1] \o <<sep>> \o join(Tail(v), sep)

\* load on the exclusions file f: no file gives the empty list, and empty
\* lines are left out
load(f) ==
    IF f = None THEN <<>>
    ELSE SelectSeq(lines(f[1]), LAMBDA l : l # <<>>)

\* add on the exclusions file f: the file as add leaves it
add(f, dir) ==
    LET listed == load(f)
    IN  IF \E i \in 1..Len(listed) : listed[i] = dir THEN f
        ELSE Some(join(Append(listed, dir), "\n") \o <<"\n">>)

\* ------------------------------------------------------------ matching.rs
\* db::DirEntry
DirEntry(cwd, freq, last_visit_ns) ==
    [cwd |-> cwd, freq |-> freq, last_visit_ns |-> last_visit_ns]

ScoredDir(path, s) == [path |-> path, score |-> s]

keywords_lower(kws) ==
    IF kws = <<>> THEN <<>> ELSE [i \in 1..Len(kws) |-> to_lowercase(kws[i])]

\* the first filter with the keywords left as typed
matches_keywords_cased(e, kws) ==
    LET path_lower == to_lowercase(e.cwd)
    IN  \A i \in 1..Len(kws) : contains(path_lower, kws[i])

\* first filter: all keywords are substrings of the lower-cased path
matches_keywords(e, kws) ==
    LET path_lower == to_lowercase(e.cwd)
    IN  \A i \in 1..Len(kws) : contains(path_lower, keywords_lower(kws)[i])

\* second filter
not_excluded(e, excl) == ~is_excluded(e.cwd, excl)

\* the third filter left out
always_exists(e, dir_exists) == TRUE

\* third filter: dir_exists is the set of paths the predicate accepts
still_exists(e, dir_exists) == e.cwd \in dir_exists

last(s) == IF s = <<>> THEN None ELSE Some(s[Len(s)])

\* the boost given for a last keyword anywhere in the path
boosted_full_path(e, s, kws) ==
    LET last_kw == last(keywords_lower(kws))
    IN  IF last_kw # None /\ contains(to_lowercase(e.cwd), last_kw[1])
        THEN F64Mul(s, F64Lit(3, 1))
        ELSE s

\* the score of the map closure: the mode's score, times 1.5 when the last
\* keyword is in the basename
boosted(e, s, kws) ==
    LET last_kw  == last(keywords_lower(kws))
        basename == file_name(e.cwd)
    IN  IF /\ last_kw # None
           /\ basename # None
           /\ contains(to_lowercase(basename[1]), last_kw[1])
        THEN F64Mul(s, F64Lit(3, 1))
        ELSE s

\* the comparator given to sort_by
by_score_desc(a, b) == partial_cmp(b.score, a.score)

\* an insertion that puts an element in front of the elements placed before
\* it that compare Equal to it
RECURSIVE insert_before_equal(_, _)
insert_before_equal(sorted, x) ==
    IF sorted = <<>> THEN <<x>>
    ELSE IF by_score_desc(Head(sorted), x) # "Less"
         THEN <<x>> \o sorted
         ELSE <<Head(sorted)>> \o insert_before_equal(Tail(sorted), x)

\* slice::sort_by is a stable sort: each element goes behind the elements
\* already placed that do not compare Greater than it
RECURSIVE insert_stable(_, _)
insert_stable(sorted, x) ==
    IF sorted = <<>> THEN <<x>>
    ELSE IF by_score_desc(Head(sorted), x) = "Greater"
         THEN <<x>> \o sorted
         ELSE <<Head(sorted)>> \o insert_stable(Tail(sorted), x)

\* no sort at all
sort_none(v) == v

RECURSIVE sort_by(_)
sort_by(v) ==
    IF v = <<>> THEN <<>>
    ELSE insert_stable(sort_by(SubSeq(v, 1, Len(v) - 1)), v[Len(v)])

\* rank_with cut down to the best match
rank_best_only(es, kws, m, now, excl, dir_exists) ==
    LET f1 == SelectSeq(es, LAMBDA e : matches_keywords(e, kws))
        f2 == SelectSeq(f1, LAMBDA e : not_excluded(e, excl))
        f3 == SelectSeq(f2, LAMBDA e : still_exists(e, dir_exists))
        scored == IF f3 = <<>> THEN <<>>
                  ELSE [i \in 1..Len(f3) |->
                           ScoredDir(f3[i].cwd, boosted(f3[i], score(f3[i], now, m), kws))]
    IN  IF scored = <<>> THEN <<>> ELSE <<sort_by(scored)[1]>>

rank_with(es, kws, m, now, excl, dir_exists) ==
    LET f1 == SelectSeq(es, LAMBDA e : matches_keywords(e, kws))
        f2 == SelectSeq(f1, LAMBDA e : not_excluded(e, excl))
        f3 == SelectSeq(f2, LAMBDA e : still_exists(e, dir_exists))
        scored == IF f3 = <<>> THEN <<>>
                  ELSE [i \in 1..Len(f3) |->
                           ScoredDir(f3[i].cwd, boosted(f3[i], score(f3[i], now, m), kws))]
    IN  sort_by(scored)

\* ------------------------------------------------------------ db.rs
\* SQLite's LIKE: % is any run of characters, _ any one character, and
\* ASCII letters match without regard to case
RECURSIVE like(_, _)
like(pattern, text) ==
    IF pattern = <<>> THEN text = <<>>
    ELSE IF Head(pattern) = "%"
         THEN like(Tail(pattern), text) \/ (text # <<>> /\ like(pattern, Tail(text)))
         ELSE /\ text # <<>>
              /\ \/ Head(pattern) = "_"
                 \/ char_to_lowercase(Head(pattern)) = char_to_lowercase(Head(text))
              /\ like(Tail(pattern), Tail(text))

\* the WHERE clause of query_dirs for a row of the history table
selected(row, prefix) ==
    /\ ~row.deleted
    /\ prefix # None => like(prefix[1] \o <<"/", "%">>, row.cwd)

RECURSIVE max_of(_)
max_of(S) ==
    LET x == CHOOSE y \in S : TRUE
    IN  IF S = {x} THEN x
        ELSE LET m == max_of(S \ {x}) IN IF x > m THEN x ELSE m

\* GROUP BY cwd: one DirEntry for each cwd among the selected rows
query_dirs(table, prefix) ==
    LET rows == {r \in table : selected(r, prefix)}
        group(c) == {r \in rows : r.cwd = c}
    IN  {DirEntry(c,
                  IntFromInt(Cardinality(group(c))),
                  IntFromInt(max_of({r.timestamp : r \in group(c)})))
         : c \in {r.cwd : r \in rows}}

\* the sequences that hold each element of S once (SQL fixes no row order)
orderings(S) ==
    {q \in [1..Cardinality(S) -> S] : \A x \in S : \E i \in DOMAIN q : q[i] = x}

\* ------------------------------------------------------------ inputs
\* matching.rs and frecency.rs tests: NOW = 1e18 ns
NOW == IntMul(NANOS_PER_SECOND, NANOS_PER_SECOND)

Ago(d) == IntSub(NOW, d)

PathPU == <<"/", "p", "/", "u">>
PathUP == <<"/", "u", "/", "P">>
PathU == <<"/", "u">>
PathDotDot == <<"/", "p", "/", ".", ".">>
PathPool == {PathPU, PathUP, PathU, PathDotDot}

\* visit count and last visit of the entries ranked
StatPool == {<<2, IntFromInt(0)>>, <<1, Ago(IntFromInt(1))>>, <<1, NOW>>}

EntryPool == {DirEntry(p, IntFromInt(st[1]), st[2]) : p \in PathPool, st \in StatPool}

KeywordPool == {<<>>, <<<<"p">>>>, <<<<"U">>>>, <<<<"p">>, <<"U">>>>,
                <<<<"U">>, <<"p">>>>, <<<<"x">>>>}

ExclusionPool == {<<>>, <<PathU>>, <<PathUP, PathPU>>}

\* the directories that exist on disk
DirsPool == {PathPool, PathPool \ {PathUP}, {PathUP, PathDotDot}}

MaxEntries == 2

\* ------------------------------------------------------------ state
VARIABLES
    entries,      \* Vec<DirEntry>: the rows query_dirs returned
    keywords,     \* cli.keywords
    mode,         \* the scoring mode
    now_ns,       \* the clock reading
    exclusions,   \* the exclusion list loaded
    dirs,         \* the paths dir_exists accepts
    results,      \* Vec<ScoredDir>: what rank_with returned
    history,      \* the rows of the history table
    cwd_prefix,   \* Option<&str>: the prefix given to query_dirs
    file,         \* Option<String>: the exclusions file, None while there is none
    pc            \* "input", then "ranked", "scored", "queried" or "loaded"

vars == <<entries, keywords, mode, now_ns, exclusions, dirs, results,
          history, cwd_prefix, file, pc>>

\* ------------------------------------------------------------ ranking
Init ==
    /\ entries = <<>>
    /\ keywords = <<>>
    /\ mode = "Frecency"
    /\ now_ns = NOW
    /\ exclusions \in ExclusionPool
    /\ dirs \in DirsPool
    /\ results = <<>>
    /\ history = {}
    /\ cwd_prefix = None
    /\ file = None
    /\ pc = "input"

\* one more row comes back from the history query
PushEntry ==
    /\ pc = "input"
    /\ Len(entries) < MaxEntries
    /\ \E e \in EntryPool :
          \* GROUP BY cwd: no two rows share a cwd
          /\ \A i \in 1..Len(entries) : entries[i].cwd # e.cwd
          /\ entries' = Append(entries, e)
    /\ UNCHANGED <<keywords, mode, now_ns, exclusions, dirs, results,
                   history, cwd_prefix, pc, file>>

\* matching::rank_with, called with the keywords and the mode of the command line
Rank ==
    /\ pc = "input"
    /\ \E kws \in KeywordPool, m \in Mode :
          /\ keywords' = kws
          /\ mode' = m
          /\ results' = rank_with(entries, kws, m, now_ns, exclusions, dirs)
    /\ pc' = "ranked"
    /\ UNCHANGED <<entries, now_ns, exclusions, dirs, history, cwd_prefix, file>>

Next == PushEntry \/ Rank

Spec == Init /\ [][Next]_vars

\* ------------------------------------------------------------ scoring alone
FreqPool == {IntFromInt(0), IntFromInt(1), IntFromInt(10)}

AgePool == {IntFromInt(0), IntFromInt(1),
            IntSub(HOUR_NS, IntFromInt(1)), HOUR_NS, IntAdd(HOUR_NS, IntFromInt(1)),
            IntSub(DAY_NS, IntFromInt(1)), DAY_NS, IntAdd(DAY_NS, IntFromInt(1)),
            IntSub(WEEK_NS, IntFromInt(1)), WEEK_NS, IntMul(IntFromInt(52), WEEK_NS)}

LastVisitPool == {Ago(a) : a \in AgePool}
                 \cup {IntFromInt(0), IntAdd(NOW, IntFromInt(1)), IntAdd(NOW, HOUR_NS),
                       I64_MIN, I64_MAX}

NowPool == {NOW, IntFromInt(0), I64_MIN}

InitScore ==
    /\ \E f \in FreqPool, t \in LastVisitPool : entries = <<DirEntry(PathU, f, t)>>
    /\ keywords = <<>>
    /\ mode = "Frecency"
    /\ now_ns \in NowPool
    /\ exclusions = <<>>
    /\ dirs = PathPool
    /\ results = <<>>
    /\ history = {}
    /\ cwd_prefix = None
    /\ file = None
    /\ pc = "input"

\* frecency::score of the one entry, under some mode
Score ==
    /\ pc = "input"
    /\ \E m \in Mode :
          /\ mode' = m
          /\ results' = <<ScoredDir(entries[1].cwd, score(entries[1], now_ns, m))>>
    /\ pc' = "scored"
    /\ UNCHANGED <<entries, keywords, now_ns, exclusions, dirs, history, cwd_prefix, file>>

NextScore == Score

SpecScore == InitScore /\ [][NextScore]_vars

\* ------------------------------------------------------------ the history query
CwdPool == {<<"/", "u">>, <<"/", "u", "/", "c">>, <<"/", "U", "/", "c">>,
            <<"/", "v", "/", "c">>}

PrefixPool == {<<"/", "u">>, <<"/", "v">>, <<"/", "_">>, <<"/", "%">>}

TimestampPool == {100, 200}

MaxRows == 2

InitDb ==
    /\ entries = <<>>
    /\ keywords = <<>>
    /\ mode = "Frecency"
    /\ now_ns = NOW
    /\ exclusions = <<>>
    /\ dirs = PathPool
    /\ results = <<>>
    /\ history = {}
    /\ cwd_prefix = None
    /\ file = None
    /\ pc = "input"

Row(id, cwd, timestamp, deleted) ==
    [id |-> id, cwd |-> cwd, timestamp |-> timestamp, deleted |-> deleted]

\* a command is recorded
InsertHistory ==
    /\ pc = "input"
    /\ Cardinality(history) < MaxRows
    /\ \E c \in CwdPool, t \in TimestampPool :
          history' = history \cup {Row(Cardinality(history) + 1, c, t, FALSE)}
    /\ UNCHANGED <<entries, keywords, mode, now_ns, exclusions, dirs, results,
                   cwd_prefix, pc, file>>

\* a command that was recorded and deleted since
InsertDeleted ==
    /\ pc = "input"
    /\ Cardinality(history) < MaxRows
    /\ \E c \in CwdPool, t \in TimestampPool :
          history' = history \cup {Row(Cardinality(history) + 1, c, t, TRUE)}
    /\ UNCHANGED <<entries, keywords, mode, now_ns, exclusions, dirs, results,
                   cwd_prefix, pc, file>>

\* db::query_dirs, with or without a prefix
QueryDirs ==
    /\ pc = "input"
    /\ \E prefix \in {None} \cup {Some(q) : q \in PrefixPool} :
          /\ cwd_prefix' = prefix
          /\ entries' \in orderings(query_dirs(history, prefix))
    /\ pc' = "queried"
    /\ UNCHANGED <<keywords, mode, now_ns, exclusions, dirs, results, history, file>>

NextDb == InsertHistory \/ InsertDeleted \/ QueryDirs

SpecDb == InitDb /\ [][NextDb]_vars

\* ------------------------------------------------------------ the exclusion store
\* the paths given to -x: the empty string, two plain paths, a path with a
\* line feed in it and a path that ends in a carriage return
ExcludePool == {<<>>, <<"/", "u">>, <<"/", "v">>, <<"/", "u", "\n", "/", "v">>,
                <<"/", "u", "\r">>}

MaxAdds == 3

InitExcl ==
    /\ entries = <<>>
    /\ keywords = <<>>
    /\ mode = "Frecency"
    /\ now_ns = NOW
    /\ exclusions = <<>>
    /\ dirs = PathPool
    /\ results = <<>>
    /\ history = {}
    /\ cwd_prefix = None
    /\ file = None
    /\ pc = "input"

\* one pass of the -x loop: exclusions::add of the next path; keywords holds
\* the paths passed so far
Exclude ==
    /\ pc = "input"
    /\ Len(keywords) < MaxAdds
    /\ \E path \in ExcludePool :
          /\ file' = add(file, path)
          /\ keywords' = Append(keywords, path)
    /\ UNCHANGED <<entries, mode, now_ns, exclusions, dirs, results, history,
                   cwd_prefix, pc>>

\* exclusions::load of a later run
Load ==
    /\ pc = "input"
    /\ exclusions' = load(file)
    /\ pc' = "loaded"
    /\ UNCHANGED <<entries, keywords, mode, now_ns, dirs, results, history,
                   cwd_prefix, file>>

NextExcl == Exclude \/ Load

SpecExcl == InitExcl /\ [][NextExcl]_vars

\* ------------------------------------------------------------ properties
Ranked == pc = "ranked"

\* an integer as the f64 of the same value, no rounding
ExactF64(x) == [neg |-> x.neg,
                mag |-> IF x.mag = <<>> THEN <<>> ELSE NatShr(x.mag, NatTrailingZeros(x.mag)),
                exp |-> IF x.mag = <<>> THEN 0 ELSE NatTrailingZeros(x.mag)]

InResults(p) == \E i \in 1..Len(results) : results[i].path = p

\* the input entry a result path was copied from (no two entries share a cwd)
EntryOf(p) == CHOOSE e \in {entries[i] : i \in 1..Len(entries)} : e.cwd = p

MatchesAllKeywords(p) ==
    \A k \in 1..Len(keywords) : contains(to_lowercase(p), to_lowercase(keywords[k]))

EqualsAnExclusion(p) == \E j \in 1..Len(exclusions) : exclusions[j] = p

Survives(e) == MatchesAllKeywords(e.cwd) /\ ~EqualsAnExclusion(e.cwd) /\ e.cwd \in dirs

\* C1: the list rank_with returns is sorted descending by final score: no
\* result has a lower score than the result after it.
C1_SortedDescending ==
    Ranked => \A i \in 1..(Len(results) - 1) :
                 ~F64Less(results[i].score, results[i + 1].score)

\* the sort moved the second entry in front of the first
C1_Witness ==
    /\ Ranked
    /\ Len(results) = 2
    /\ results[1].path = entries[2].cwd
    /\ F64Less(results[2].score, results[1].score)

\* C2: a candidate that is not excluded and exists is in the output exactly
\* when every lower-cased keyword is a substring of its lower-cased path; with
\* no keywords every such candidate is in the output.
C2_KeywordFilter ==
    Ranked => \A i \in 1..Len(entries) :
                 (~EqualsAnExclusion(entries[i].cwd) /\ entries[i].cwd \in dirs)
                 => (InResults(entries[i].cwd) <=> MatchesAllKeywords(entries[i].cwd))

\* two keywords: one candidate matches only one of them and is dropped, another
\* matches both, one of them only because case is ignored
C2_Witness ==
    /\ Ranked
    /\ Len(keywords) = 2
    /\ \E i, j \in 1..Len(entries) :
          /\ Survives(entries[j]) /\ InResults(entries[j].cwd)
          /\ \E k \in 1..2 : ~contains(entries[j].cwd, keywords[k])
          /\ ~EqualsAnExclusion(entries[i].cwd) /\ entries[i].cwd \in dirs
          /\ \E k \in 1..2 : contains(to_lowercase(entries[i].cwd), to_lowercase(keywords[k]))
          /\ ~InResults(entries[i].cwd)

\* C3: no output path equals an entry of the exclusion list, and a candidate
\* that equals no entry (a subdirectory, a prefix or a superstring of one) is
\* not removed by the exclusion filter.
C3_ExactExclusion ==
    Ranked =>
      /\ \A i \in 1..Len(results), j \in 1..Len(exclusions) :
            results[i].path # exclusions[j]
      /\ \A i \in 1..Len(entries) :
            (/\ ~EqualsAnExclusion(entries[i].cwd)
             /\ MatchesAllKeywords(entries[i].cwd)
             /\ entries[i].cwd \in dirs)
            => InResults(entries[i].cwd)

\* an excluded directory is dropped while its subdirectory is kept
C3_Witness ==
    /\ Ranked
    /\ \E i, j \in 1..Len(entries) :
          /\ EqualsAnExclusion(entries[i].cwd)
          /\ MatchesAllKeywords(entries[i].cwd) /\ entries[i].cwd \in dirs
          /\ ~InResults(entries[i].cwd)
          /\ starts_with(entries[j].cwd, entries[i].cwd \o <<"/">>)
          /\ InResults(entries[j].cwd)

\* C4: a path the dir_exists predicate rejects is never in the output.
C4_OnlyExisting ==
    Ranked => \A i \in 1..Len(results) : results[i].path \in dirs

\* a candidate that passes the other two filters is dropped for not existing
C4_Witness ==
    /\ Ranked
    /\ Len(results) = 1
    /\ \E i \in 1..Len(entries) :
          /\ entries[i].cwd \notin dirs
          /\ MatchesAllKeywords(entries[i].cwd)
          /\ ~EqualsAnExclusion(entries[i].cwd)

\* the case in which C5 promises the boost: there is a last keyword, the path
\* has a final segment, and that segment contains the keyword, case ignored
BoostCase(p) ==
    /\ keywords # <<>>
    /\ file_name(p) # None
    /\ contains(to_lowercase(file_name(p)[1]), to_lowercase(keywords[Len(keywords)]))

BaseScore(p) == score(EntryOf(p), now_ns, mode)

OneAndAHalf == F64Lit(3, 1)

C5_FinalScore ==
    \A i \in 1..Len(results) :
       results[i].score = IF BoostCase(results[i].path)
                          THEN F64Mul(BaseScore(results[i].path), OneAndAHalf)
                          ELSE BaseScore(results[i].path)

\* C5 as claimed: the final score is 1.5 x the base score exactly in the boost
\* case and the base score otherwise; hence of two candidates with equal base
\* score the one in the boost case ranks first.
C5_Original ==
    Ranked =>
      /\ C5_FinalScore
      /\ \A i, j \in 1..Len(results) :
            (/\ BoostCase(results[i].path)
             /\ ~BoostCase(results[j].path)
             /\ BaseScore(results[i].path) = BaseScore(results[j].path))
            => i < j

\* C5 amended: the final score is 1.5 x the base score exactly in the boost
\* case and the base score otherwise; hence of two candidates with equal
\* positive base score the one in the boost case ranks first.
C5_BasenameBoost ==
    Ranked =>
      /\ C5_FinalScore
      /\ \A i, j \in 1..Len(results) :
            (/\ BoostCase(results[i].path)
             /\ ~BoostCase(results[j].path)
             /\ BaseScore(results[i].path) = BaseScore(results[j].path)
             /\ F64Less(F64Lit(0, 0), BaseScore(results[i].path)))
            => i < j

\* two keywords; the boosted candidate came second and ranks first, in front
\* of one of equal positive base score that only an earlier keyword or an
\* ancestor segment matches
C5_Witness ==
    /\ Ranked
    /\ Len(results) = 2
    /\ Len(keywords) = 2
    /\ results[1].path = entries[2].cwd
    /\ BoostCase(results[1].path)
    /\ ~BoostCase(results[2].path)
    /\ BaseScore(results[1].path) = BaseScore(results[2].path)
    /\ F64Less(F64Lit(0, 0), BaseScore(results[1].path))
    /\ results[1].score = F64Mul(results[2].score, OneAndAHalf)

\* x * n / 2^k as an f64, no rounding
ExactTimes(x, n, k) ==
    LET m == NatMulSmall(x.mag, n)
    IN  IF m = <<>> THEN [neg |-> FALSE, mag |-> <<>>, exp |-> 0]
        ELSE [neg |-> x.neg,
              mag |-> NatShr(m, NatTrailingZeros(m)),
              exp |-> NatTrailingZeros(m) - k]

\* the units and the weights as C6 states them
OneHour == IntMul(IntFromInt(3600), IntFromInt(1000000000))
OneDay == IntMul(IntFromInt(24), OneHour)
OneWeek == IntMul(IntFromInt(7), OneDay)

\* visit_count x weight for an age, by C6's table: 4.0, 2.0, 0.5, 0.25
BucketScore(freq, age) ==
    IF IntLess(age, OneHour) THEN ExactTimes(freq, 4, 0)
    ELSE IF IntLess(age, OneDay) THEN ExactTimes(freq, 2, 0)
    ELSE IF IntLess(age, OneWeek) THEN ExactTimes(freq, 1, 1)
    ELSE ExactTimes(freq, 1, 2)

\* C6: in Frecency mode the score is visit_count x weight(now - last_visit),
\* the weight being 4.0 below an hour, 2.0 from an hour to below a day, 0.5
\* from a day to below a week and 0.25 from a week on.
C6_FrecencyBuckets ==
    (pc = "scored" /\ mode = "Frecency")
    => results[1].score =
          BucketScore(entries[1].freq, IntSub(now_ns, entries[1].last_visit_ns))

\* ten visits, the last one exactly an hour ago: 20.0
C6_Witness ==
    /\ pc = "scored"
    /\ mode = "Frecency"
    /\ entries[1].freq = IntFromInt(10)
    /\ IntSub(now_ns, entries[1].last_visit_ns) = OneHour
    /\ results[1].score = F64Lit(20, 0)

\* C7: in Frequency mode the score is the visit count whatever last_visit and
\* now are, and rank_with with no keywords orders the candidates by visit
\* count, descending.
C7_FrequencyOnly ==
    (Ranked /\ mode = "Frequency" /\ keywords = <<>>)
    => /\ \A i \in 1..Len(entries), t \in LastVisitPool, n \in NowPool :
             score([entries[i] EXCEPT !.last_visit_ns = t], n, mode)
                = ExactF64(entries[i].freq)
       /\ \A i, j \in 1..Len(results) :
             i < j => ~IntLess(EntryOf(results[i].path).freq,
                               EntryOf(results[j].path).freq)

\* the candidate with more visits came second and was visited long before
\* the other, and ranks first
C7_Witness ==
    /\ Ranked
    /\ mode = "Frequency"
    /\ keywords = <<>>
    /\ Len(results) = 2
    /\ results[1].path = entries[2].cwd
    /\ IntLess(entries[1].freq, entries[2].freq)
    /\ IntLess(entries[2].last_visit_ns, entries[1].last_visit_ns)
    /\ results[1].score = ExactF64(entries[2].freq)

\* C8 as claimed: in Recency mode a later last_visit never gives a lower
\* score, the score depends neither on the visit count nor on now, and
\* rank_with with no keywords places the most recently visited candidate
\* first.
C8_RecencyFirst ==
    (Ranked /\ mode = "Recency" /\ keywords = <<>>)
    => /\ \A i, j \in 1..Len(entries), f \in FreqPool, n \in NowPool :
             /\ IntLess(entries[i].last_visit_ns, entries[j].last_visit_ns)
                => ~F64Less(score([entries[j] EXCEPT !.freq = f], n, mode),
                            score([entries[i] EXCEPT !.freq = f], n, mode))
             /\ score([entries[i] EXCEPT !.freq = f], n, mode)
                   = score(entries[i], now_ns, mode)
       /\ \A i \in 1..Len(results) :
             ~IntLess(EntryOf(results[1].path).last_visit_ns,
                      EntryOf(results[i].path).last_visit_ns)

\* the paths of a sequence of entries or of results
CountCwd(es, p) == Cardinality({i \in 1..Len(es) : es[i].cwd = p})
CountPath(rs, p) == Cardinality({i \in 1..Len(rs) : rs[i].path = p})

\* C9: the output holds exactly one result for each entry that passes the
\* keyword, exclusion and existence filters, its path unchanged, and nothing
\* else; when nothing survives it is empty.
C9_FullFilteredList ==
    Ranked =>
      LET survivors == SelectSeq(entries, Survives)
      IN  /\ Len(results) = Len(survivors)
          /\ \A i \in 1..Len(entries) :
                CountPath(results, entries[i].cwd) = CountCwd(survivors, entries[i].cwd)
          /\ \A i \in 1..Len(results) : CountCwd(entries, results[i].path) > 0

\* of two entries one is dropped by a filter and the other is the output
C9_Witness ==
    /\ Ranked
    /\ Len(entries) = 2
    /\ keywords # <<>>
    /\ Len(results) = 1
    /\ results[1].path = entries[2].cwd

\* C10 as claimed: with a prefix P, every entry query_dirs returns has a cwd
\* that starts with P followed by "/", and none has the cwd P.
C10_StrictDescendants ==
    (pc = "queried" /\ cwd_prefix # None)
    => \A i \in 1..Len(entries) :
          /\ starts_with(entries[i].cwd, cwd_prefix[1] \o <<"/">>)
          /\ entries[i].cwd # cwd_prefix[1]

\* the paths passed to add so far
Added == {keywords[i] : i \in 1..Len(keywords)}

NoDuplicates(v) == \A i, j \in 1..Len(v) : v[i] = v[j] => i = j

\* C11 as claimed: after any sequence of add calls, add(p) for a path p added
\* earlier (the add just made included, which is add(p); add(p) against one
\* add(p)) leaves the file content and the list load returns unchanged, and
\* load never holds a path twice; this for every path, the empty string
\* included.
C11_AddIdempotent ==
    /\ \A p \in Added :
          /\ add(file, p) = file
          /\ load(add(file, p)) = load(file)
    /\ NoDuplicates(load(file))
    /\ pc = "loaded" => NoDuplicates(exclusions)

\* the place of the entry with path p in the input list
IndexOf(p) == CHOOSE i \in 1..Len(entries) : entries[i].cwd = p

\* C12: two results of rank_with with exactly equal final scores stand in the
\* output in the order their entries have in the input list.
C12_TiesKeepInputOrder ==
    Ranked => \A i, j \in 1..Len(results) :
                 (i < j /\ partial_cmp(results[i].score, results[j].score) = "Equal")
                    => IndexOf(results[i].path) < IndexOf(results[j].path)

\* two entries that differ in their last visit tie at a positive score and
\* come out in input order
C12_Witness ==
    /\ Ranked
    /\ Len(results) = 2
    /\ partial_cmp(results[1].score, results[2].score) = "Equal"
    /\ F64Less(F64Lit(0, 0), results[1].score)
    /\ entries[1].last_visit_ns # entries[2].last_visit_ns
    /\ results[1].path = entries[1].cwd
    /\ results[2].path = entries[2].cwd

\* the difference now - last_visit does not fit an i64
Overflows(now, last_visit) ==
    LET d == IntSub(now, last_visit)
    IN  IntLess(I64_MAX, d) \/ IntLess(d, I64_MIN)

\* C13: in Frecency mode an entry whose last_visit is later than now has the
\* score it would have with age 0, visit_count x 4.0, and an entry whose
\* last_visit lies a week or more before now has visit_count x 0.25, also when
\* now - last_visit does not fit in 64 bits.
C13_AgeClamped ==
    (pc = "scored" /\ mode = "Frecency")
    => LET e == entries[1]
       IN  /\ IntLess(now_ns, e.last_visit_ns)
              => /\ results[1].score = ExactTimes(e.freq, 4, 0)
                 /\ results[1].score =
                       score(DirEntry(e.cwd, e.freq, now_ns), now_ns, "Frecency")
           /\ ~IntLess(IntSub(now_ns, e.last_visit_ns), OneWeek)
              => results[1].score = ExactTimes(e.freq, 1, 2)

\* ten visits, the last one nearly 2^63 ns before the epoch and now 1e18 ns
\* after it: the difference is beyond an i64 and the score is 2.5
C13_Witness ==
    /\ pc = "scored"
    /\ mode = "Frecency"
    /\ entries[1].freq = IntFromInt(10)
    /\ now_ns = NOW
    /\ entries[1].last_visit_ns = I64_MIN
    /\ Overflows(now_ns, entries[1].last_visit_ns)
    /\ results[1].score = F64Lit(5, 1)

====
